---- MODULE Spec2Model ----
(***************************************************************************)
(* Model of the RAG route handlers of src/src/app/api/rag/route.ts:        *)
(*   GET   the indexing run (fetch, filter, concurrent embed, upsert)      *)
(*   POST  the retrieval request (validate, embed, query, render, stream)  *)
(* The external collaborators (database, HuggingFace model, Pinecone       *)
(* index, generation model) are the environment: every answer they can     *)
(* give is a nondeterministic choice of the action that receives it.       *)
(***************************************************************************)
EXTENDS Integers, Sequences, FiniteSets, TLC

VARIABLES
  apiKey,        \* process.env.PINECONE_API_KEY is set
  index,         \* the external Pinecone index "openwave": id -> stored record
  index0,        \* history: the index when the current indexing run started
  gpc,           \* GET: position of the handler
  allProjects,   \* GET: rows returned by db.select().from(project)
  tasks,         \* GET: the promises of projectsWithDescription.map(async ...)
  upserts,       \* GET: the argument of every index.upsert call of the run
  gResponse,     \* GET: the response returned by the handler
  hfLog,         \* GET: the answers of the run's model calls, in order of arrival
  lastRun,       \* history: rows and answers of the previous indexing run
  ppc,           \* POST: position of the handler
  body,          \* POST: the request body
  embedCalls,    \* POST: the text of every getEmbedding call of the request
  embedAnswer,   \* POST: the answer of hf.featureExtraction to that call
  queryEmbedding,\* POST: the vector getEmbedding returned
  queryCalls,    \* POST: the argument of every index.query call of the request
  genCalls,      \* POST: the argument of every streamText call of the request
  queryResponse, \* POST: the answer of index.query
  context,       \* POST: the rendered context string
  pResponse      \* POST: the response returned by the handler

gvars == <<index0, gpc, allProjects, tasks, upserts, gResponse, hfLog, lastRun>>
pvars == <<ppc, body, embedCalls, embedAnswer, queryEmbedding, queryCalls, genCalls, queryResponse, context, pResponse>>
vars == <<apiKey, index, gvars, pvars>>

----------------------------------------------------------------------------
(* Bounds of the model *)

\* longest list of rows the database returns
MaxProjects == 2
\* longest message list of a request
MaxMessages == 2
\* dimension of the sentence-embedding model, scaled down from 384
Dim == 2

----------------------------------------------------------------------------
(* Values *)

\* null / undefined, and a present value
None == [present |-> FALSE]
Some(v) == [present |-> TRUE, val |-> v]

\* JavaScript truthiness of a nullable string held as a sequence of characters
TruthySeq(x) == x.present /\ x.val # <<>>
\* JavaScript truthiness of a nullable string held as a string
TruthyStr(x) == x.present /\ x.val # ""

\* characters String.prototype.trim removes
WhiteSpace == {" ", "\t", "\n"}

RECURSIVE trimStart(_)
trimStart(s) ==
  IF s # <<>> /\ Head(s) \in WhiteSpace THEN trimStart(Tail(s)) ELSE s

RECURSIVE trimEnd(_)
trimEnd(s) ==
  IF s # <<>> /\ s[Len(s)] \in WhiteSpace
  THEN trimEnd(SubSeq(s, 1, Len(s) - 1))
  ELSE s

\* String.prototype.trim
trim(s) == trimEnd(trimStart(s))

\* the characters of a description as one string
RECURSIVE Text(_)
Text(s) == IF s = <<>> THEN "" ELSE Head(s) \o Text(Tail(s))

\* JSON.stringify of the languages column: null, or an object of numbers
RECURSIVE JSONMembers(_)
JSONMembers(kv) ==
  IF kv = <<>> THEN ""
  ELSE "\"" \o kv[1][1] \o "\":" \o ToString(kv[1][2])
       \o (IF Len(kv) > 1 THEN "," ELSE "") \o JSONMembers(Tail(kv))

JSONStringify(l) ==
  IF l.present THEN "{" \o JSONMembers(l.val) \o "}" ELSE "null"

----------------------------------------------------------------------------
(* The embedder: getEmbedding *)

\* components a response of hf.featureExtraction can carry: two finite numbers,
\* NaN, an infinity (the JSON number 1e999) and null
FiniteNumbers == {"0.1", "0.2"}
Components == FiniteNumbers \cup {"NaN", "Infinity", "null"}

\* the global isNaN: Number(x) is NaN. Number(null) is 0 and Number(Infinity)
\* is Infinity, so neither is NaN
isNaN(c) == c = "NaN"

\* the vector of the model's dimension with every component c
Vec(c) == [i \in 1..Dim |-> c]
\* a vector of the model's dimension with one component c among finite ones
VecWith(c) == [i \in 1..Dim |-> IF i = 1 THEN c ELSE "0.1"]

\* answers of hf.featureExtraction: the call rejects, or resolves to a
\* non-array, to a flat array (rows = <<the array>>) or to an array of arrays
HfReject == [kind |-> "reject", rows |-> <<>>]
HfScalar == [kind |-> "scalar", rows |-> <<>>]
HfFlat(v) == [kind |-> "flat", rows |-> <<v>>]
HfNested(rows) == [kind |-> "nested", rows |-> rows]

HfResponses ==
  { HfReject, HfScalar,
    HfFlat(Vec("0.1")), HfFlat(Vec("0.2")),
    HfFlat(VecWith("NaN")), HfFlat(VecWith("Infinity")), HfFlat(VecWith("null")),
    HfFlat(<<>>), HfFlat([i \in 1..(Dim - 1) |-> "0.2"]),
    HfNested(<<Vec("0.1")>>), HfNested(<<Vec("0.1"), Vec("0.2")>>) }

\* faulty variant of flat: only the first row is kept (response[0])
flatFirstRow(rows) == IF rows = <<>> THEN <<>> ELSE Head(rows)

\* Array.prototype.flat on an array of arrays
RECURSIVE flat(_)
flat(rows) == IF rows = <<>> THEN <<>> ELSE Head(rows) \o flat(Tail(rows))

Resolved(v) == [ok |-> TRUE, val |-> v, err |-> ""]
Thrown(e) == [ok |-> FALSE, val |-> <<>>, err |-> e]

\* getEmbedding(text), given the answer of the model call
getEmbedding(resp) ==
  CASE resp.kind = "reject" -> Thrown("featureExtraction failed")
    [] resp.kind = "nested" -> Resolved(flat(resp.rows))
    [] resp.kind = "flat" -> Resolved(resp.rows[1])
    [] OTHER -> Thrown("Invalid embedding response format")

----------------------------------------------------------------------------
(* The indexing run: GET *)

Project(name, desc, langs, owner) ==
  [projectName |-> name, aiDescription |-> desc, languages |-> langs,
   projectOwner |-> owner]

\* rows of the project table
ProjectPool ==
  { Project(Some("A"), Some(<<"d", "e", "s", "c">>), Some(<<<<"js", 10>>>>), Some("bob")),
    Project(Some("B"), Some(<<>>), Some(<<>>), Some("x")),
    Project(None, Some(<<" ", "h", "i", "\n">>), None, None),
    Project(Some("D"), Some(<<" ", "\t">>), Some(<<>>), Some("")),
    Project(Some(""), None, None, Some("eve")) }

RECURSIVE SeqsUpTo(_, _)
SeqsUpTo(S, n) ==
  IF n = 0 THEN {<<>>}
  ELSE LET shorter == SeqsUpTo(S, n - 1)
       IN shorter \cup {Append(s, x) : s \in {t \in shorter : Len(t) = n - 1}, x \in S}

ProjectLists == SeqsUpTo(ProjectPool, MaxProjects)

\* faulty variant of HasDescription: the description is not trimmed
HasDescriptionNoTrim(p) == TruthySeq(p.aiDescription)

\* the filter predicate: p.aiDescription && p.aiDescription.trim() !== ""
HasDescription(p) ==
  TruthySeq(p.aiDescription) /\ trim(p.aiDescription.val) # <<>>

projectsWithDescription(rows) == SelectSeq(rows, HasDescription)

\* `${p.projectName}` in the error message
NameText(n) == IF n.present THEN n.val ELSE "null"

Metadata(p) ==
  [projectName |-> IF TruthyStr(p.projectName) THEN p.projectName.val
                   ELSE "Unnamed Project",
   description |-> Text(p.aiDescription.val),
   languages |-> JSONStringify(p.languages),
   owner |-> IF TruthyStr(p.projectOwner) THEN p.projectOwner.val
             ELSE "Unknown Owner"]

\* faulty variant of VectorId: ids count from one
VectorIdOneBased(i) == ToString(i)

\* faulty variant of VectorId: ids go on after the records already stored
VectorIdAfterStored(i) == ToString(i - 1 + Cardinality(DOMAIN index))

\* the id of the map callback's second argument (zero-based), as a string
VectorId(i) == ToString(i - 1)

\* the check of the embedding: !Array.isArray(embedding) || embedding.some(isNaN)
InvalidEmbedding(embedding) == \E k \in 1..Len(embedding) : isNaN(embedding[k])

Pending == [status |-> "pending", id |-> "", values |-> <<>>, err |-> ""]
Fulfilled(id, v) == [status |-> "fulfilled", id |-> id, values |-> v, err |-> ""]
Rejected(e) == [status |-> "rejected", id |-> "", values |-> <<>>, err |-> e]

\* the async callback of projectsWithDescription.map, for the i-th (1-based)
\* eligible record p, once its model call has answered resp
EmbedTask(p, i, resp) ==
  LET embedding == getEmbedding(resp)
  IN IF ~embedding.ok THEN Rejected(embedding.err)
     ELSE IF InvalidEmbedding(embedding.val)
     THEN Rejected("Invalid embedding for project " \o NameText(p.projectName))
     ELSE Fulfilled(VectorId(i), embedding.val)

\* the PineconeVector the fulfilled i-th task resolves to
Vector(rows, ts, i) ==
  [id |-> ts[i].id, values |-> ts[i].values,
   metadata |-> Some(Metadata(projectsWithDescription(rows)[i]))]

\* faulty variant of Vectors: each task pushes its embedding onto a shared
\* array when it completes, so the values stand in order of arrival
VectorsInArrivalOrder(rows, ts) ==
  [k \in 1..Len(ts) |->
     [id |-> ts[k].id, values |-> ts[hfLog'[k].task].values,
      metadata |-> Some(Metadata(projectsWithDescription(rows)[k]))]]

\* the array Promise.all resolves to
Vectors(rows, ts) == [i \in 1..Len(ts) |-> Vector(rows, ts, i)]

\* faulty variant of Upsert: the batch replaces the whole content of the index
UpsertReplaceAll(idx, batch) ==
  LET ids == {batch[i].id : i \in 1..Len(batch)}
      at(id) == CHOOSE i \in 1..Len(batch) : batch[i].id = id
  IN [id \in ids |-> [values |-> batch[at(id)].values, metadata |-> batch[at(id)].metadata]]

\* the index after index.upsert(batch): records are replaced by id
Upsert(idx, batch) ==
  LET ids == {batch[i].id : i \in 1..Len(batch)}
      last(id) == CHOOSE i \in 1..Len(batch) :
                    /\ batch[i].id = id
                    /\ \A j \in 1..Len(batch) : batch[j].id = id => j <= i
  IN [id \in DOMAIN idx \cup ids |->
        IF id \in ids
        THEN [values |-> batch[last(id)].values, metadata |-> batch[last(id)].metadata]
        ELSE idx[id]]

JsonOk(n) == [status |-> 200, success |-> TRUE, projectsProcessed |-> n, error |-> ""]
JsonError(st, e) == [status |-> st, success |-> FALSE, projectsProcessed |-> 0, error |-> e]
NoResponse == [status |-> 0, success |-> FALSE, projectsProcessed |-> 0, error |-> ""]

\* faulty variant of GetStart: the index client is made only when the upsert
\* needs it, so the run starts by reading the store whether the key is set or not
GetStartLazyIndex ==
  /\ gpc = "idle"
  /\ index0' = index
  /\ gpc' = "fetching"
  /\ UNCHANGED <<apiKey, index, allProjects, tasks, upserts, gResponse, hfLog, lastRun, pvars>>

\* getPineconeIndex() at the start of GET, then db.select()...execute() is issued
GetStart ==
  /\ gpc = "idle"
  /\ index0' = index
  /\ IF apiKey
     THEN /\ gpc' = "fetching"
          /\ UNCHANGED gResponse
     ELSE /\ gpc' = "done"
          /\ gResponse' = JsonError(500, "Failed to process data: "
                 \o "PINECONE_API_KEY environment variable is not set.")
  /\ UNCHANGED <<apiKey, index, allProjects, tasks, upserts, hfLog, lastRun, pvars>>

\* the database query rejects
GetFetchFail ==
  /\ gpc = "fetching"
  /\ gpc' = "done"
  /\ gResponse' = JsonError(500, "Failed to process data: select failed")
  /\ UNCHANGED <<apiKey, index, index0, allProjects, tasks, upserts, hfLog, lastRun, pvars>>

\* the database answers rows: filter, then map starts one model call per
\* eligible record; Promise.all of no promise resolves at once to []
GetFetched(rows) ==
  /\ gpc = "fetching"
  /\ allProjects' = rows
  /\ tasks' = [i \in 1..Len(projectsWithDescription(rows)) |-> Pending]
  /\ IF projectsWithDescription(rows) = <<>>
     THEN /\ gpc' = "done"
          /\ gResponse' = JsonOk(0)
     ELSE /\ gpc' = "embedding"
          /\ UNCHANGED gResponse
  /\ UNCHANGED <<apiKey, index, index0, upserts, hfLog, lastRun, pvars>>

\* faulty variant of GetEmbedSettle: the join waits for every task and upserts the
\* batch whether or not a task was rejected (Promise.allSettled)
GetEmbedSettleAllSettled(i, resp) ==
  /\ gpc = "embedding"
  /\ i \in DOMAIN tasks
  /\ tasks[i].status = "pending"
  /\ hfLog' = Append(hfLog,
       [task |-> i, answer |-> resp,
        text |-> Text(projectsWithDescription(allProjects)[i].aiDescription.val)])
  /\ LET t == EmbedTask(projectsWithDescription(allProjects)[i], i, resp)
         ts == [tasks EXCEPT ![i] = t]
     IN /\ tasks' = ts
        /\ IF \A j \in DOMAIN ts : ts[j].status # "pending"
           THEN /\ gpc' = "upserting"
                /\ upserts' = Append(upserts, Vectors(allProjects, ts))
           ELSE UNCHANGED <<gpc, upserts>>
  /\ UNCHANGED <<apiKey, index, index0, allProjects, gResponse, lastRun, pvars>>

\* faulty variant of GetEmbedSettle: the join waits until every task has settled
\* and then reports the error of the lowest-indexed rejected task
GetEmbedSettleLowestIndexed(i, resp) ==
  /\ gpc = "embedding"
  /\ i \in DOMAIN tasks
  /\ tasks[i].status = "pending"
  /\ hfLog' = Append(hfLog,
       [task |-> i, answer |-> resp,
        text |-> Text(projectsWithDescription(allProjects)[i].aiDescription.val)])
  /\ LET t == EmbedTask(projectsWithDescription(allProjects)[i], i, resp)
         ts == [tasks EXCEPT ![i] = t]
         bad == {j \in DOMAIN ts : ts[j].status = "rejected"}
     IN /\ tasks' = ts
        /\ IF \E j \in DOMAIN ts : ts[j].status = "pending"
           THEN UNCHANGED <<gpc, gResponse, upserts>>
           ELSE IF bad # {}
           THEN /\ gpc' = "done"
                /\ gResponse' = JsonError(500, "Failed to process data: "
                       \o ts[CHOOSE j \in bad : \A m \in bad : j <= m].err)
                /\ UNCHANGED upserts
           ELSE /\ gpc' = "upserting"
                /\ upserts' = Append(upserts, Vectors(allProjects, ts))
                /\ UNCHANGED gResponse
  /\ UNCHANGED <<apiKey, index, index0, allProjects, lastRun, pvars>>

\* the model call of the i-th task answers resp. The first rejection rejects
\* Promise.all and the catch block answers; the last fulfilment resolves it
\* and index.upsert(vectors) is called. A task that settles after the handler
\* has answered changes nothing but its own promise.
GetEmbedSettle(i, resp) ==
  /\ gpc \in {"embedding", "done"}
  /\ i \in DOMAIN tasks
  /\ tasks[i].status = "pending"
  /\ hfLog' = Append(hfLog,
       [task |-> i, answer |-> resp,
        text |-> Text(projectsWithDescription(allProjects)[i].aiDescription.val)])
  /\ LET t == EmbedTask(projectsWithDescription(allProjects)[i], i, resp)
         ts == [tasks EXCEPT ![i] = t]
     IN /\ tasks' = ts
        /\ IF gpc = "embedding" /\ t.status = "rejected"
           THEN /\ gpc' = "done"
                /\ gResponse' = JsonError(500, "Failed to process data: " \o t.err)
                /\ UNCHANGED upserts
           ELSE IF gpc = "embedding" /\ \A j \in DOMAIN ts : ts[j].status = "fulfilled"
           THEN /\ gpc' = "upserting"
                /\ upserts' = Append(upserts, Vectors(allProjects, ts))
                /\ UNCHANGED gResponse
           ELSE UNCHANGED <<gpc, gResponse, upserts>>
  /\ UNCHANGED <<apiKey, index, index0, allProjects, lastRun, pvars>>

\* faulty variant of GetUpsertDone: the count reported is that of the fetched rows
GetUpsertDoneCountsFetched ==
  /\ gpc = "upserting"
  /\ index' = Upsert(index, upserts[Len(upserts)])
  /\ gpc' = "done"
  /\ gResponse' = JsonOk(Len(allProjects))
  /\ UNCHANGED <<apiKey, index0, allProjects, tasks, upserts, hfLog, lastRun, pvars>>

\* the index accepts the batch
GetUpsertDone ==
  /\ gpc = "upserting"
  /\ index' = Upsert(index, upserts[Len(upserts)])
  /\ gpc' = "done"
  /\ gResponse' = JsonOk(Len(upserts[Len(upserts)]))
  /\ UNCHANGED <<apiKey, index0, allProjects, tasks, upserts, hfLog, lastRun, pvars>>

\* the index rejects the batch (dimension mismatch, quota, network)
GetUpsertFail ==
  /\ gpc = "upserting"
  /\ gpc' = "done"
  /\ gResponse' = JsonError(500, "Failed to process data: upsert failed")
  /\ UNCHANGED <<apiKey, index, index0, allProjects, tasks, upserts, hfLog, lastRun, pvars>>

----------------------------------------------------------------------------
(* The retrieval request: POST *)

\* content of a CoreMessage: a string, or an array of parts
TextContent(t) == [isString |-> TRUE, text |-> t]
PartsContent == [isString |-> FALSE, text |-> ""]
Message(r, c) == [role |-> r, content |-> c]

MessagePool ==
  { Message("user", TextContent("What does project A do?")),
    Message("user", TextContent("hi")),
    Message("user", PartsContent),
    Message("assistant", TextContent("ok")),
    Message("system", TextContent("be brief")) }

\* request bodies: not JSON at all, JSON whose messages is no array, or a
\* message list
BadJson == [kind |-> "badjson", messages |-> <<>>]
NoList == [kind |-> "nolist", messages |-> <<>>]
ListBody(ms) == [kind |-> "list", messages |-> ms]
Bodies == {BadJson, NoList} \cup {ListBody(ms) : ms \in SeqsUpTo(MessagePool, MaxMessages)}

\* faulty variant of latestUserMessage: the last user message with text content
IsTextUser(msg) == msg.role = "user" /\ msg.content.isString
latestTextUserMessage(messages) ==
  LET users == SelectSeq(messages, IsTextUser)
  IN IF users = <<>> THEN None ELSE Some(users[Len(users)])

\* faulty variant of latestUserMessage: the last message of any role
latestMessage(messages) ==
  IF messages = <<>> THEN None ELSE Some(messages[Len(messages)])

IsUser(msg) == msg.role = "user"

\* messages.filter((msg) => msg.role === "user").pop()
latestUserMessage(messages) ==
  LET users == SelectSeq(messages, IsUser)
  IN IF users = <<>> THEN None ELSE Some(users[Len(users)])

\* faulty variant of TopK: five matches are asked for
TopKFive == 3 + 2

\* the topK of the index query
TopK == 3

\* the argument of index.query
QueryRequest(v) == [vector |-> v, topK |-> TopK, includeMetadata |-> TRUE]

\* similarity scores in units of 0.00001, by rank: distinct and descending,
\* tied just below 1, or left out of the answer
ScoreRankings == {"spread", "tied", "absent"}
Score(ranking, rank) ==
  CASE ranking = "spread" -> Some(98765 - 1111 * rank)
    [] ranking = "tied" -> Some(99995)
    [] OTHER -> None

\* the sequences of at most n distinct elements of S
RECURSIVE DistinctSeqs(_, _)
DistinctSeqs(S, n) ==
  IF n = 0 THEN {<<>>}
  ELSE LET shorter == DistinctSeqs(S, n - 1)
           longest == {t \in shorter : Len(t) = n - 1}
       IN shorter \cup
          UNION {{Append(s, x) : x \in S \ {s[i] : i \in 1..Len(s)}} : s \in longest}

\* an answer of index.query, and the handler's state before any answer
Answer(matches) == [answered |-> TRUE, matches |-> matches]
NoAnswer == [answered |-> FALSE, matches |-> None]

\* what the index can answer to a query q: no match list, or at most q.topK
\* stored records, best first, each with its metadata when q asks for it and
\* the record has some
QueryAnswers(idx, q) ==
  {Answer(None)} \cup
  { Answer(Some([i \in 1..Len(ids) |->
            [id |-> ids[i], score |-> Score(r, i),
             metadata |-> IF q.includeMetadata THEN idx[ids[i]].metadata ELSE None]])) :
      ids \in DistinctSeqs(DOMAIN idx, q.topK), r \in ScoreRankings }

\* decimal digits of n, padded with zeros to width w
RECURSIVE Digits(_, _)
Digits(n, w) ==
  IF w = 0 THEN "" ELSE Digits(n \div 10, w - 1) \o ToString(n % 10)

\* Number.prototype.toFixed(4) of a score of s units of 0.00001
toFixed4(s) ==
  LET r == (s + 5) \div 10
  IN ToString(r \div 10000) \o "." \o Digits(r % 10000, 4)

\* `${match.score?.toFixed(4)}`
ScoreText(score) == IF score.present THEN toFixed4(score.val) ELSE "undefined"

\* the fields the map callback reads of one match
Block(match) ==
  [project |-> match.metadata.val.projectName,
   owner |-> match.metadata.val.owner,
   description |-> match.metadata.val.description,
   score |-> ScoreText(match.score)]

\* the template literal of one match
BlockText(b) ==
  "Project: " \o b.project \o "\nOwner: " \o b.owner \o "\nDescription: "
  \o b.description \o "\nRelevance Score: " \o b.score \o "\n"

\* Array.prototype.join
RECURSIVE join(_, _)
join(strs, sep) ==
  IF strs = <<>> THEN ""
  ELSE IF Len(strs) = 1 THEN strs[1]
  ELSE strs[1] \o sep \o join(Tail(strs), sep)

\* faulty variant of RenderThrows: matches is mapped without ?. and throws when absent
RenderThrowsNoOptionalChain(resp) ==
  \/ ~resp.matches.present
  \/ \E i \in 1..Len(resp.matches.val) : ~resp.matches.val[i].metadata.present

\* match.metadata! is read of every match: one without metadata throws
RenderThrows(resp) ==
  resp.matches.present
  /\ \E i \in 1..Len(resp.matches.val) : ~resp.matches.val[i].metadata.present

\* the blocks of queryResponse.matches?.map(...), none when matches is absent
Blocks(resp) ==
  IF resp.matches.present
  THEN [i \in 1..Len(resp.matches.val) |-> Block(resp.matches.val[i])]
  ELSE <<>>

\* queryResponse.matches?.map(...).join("\n---\n") ?? ""
Context(resp) ==
  IF resp.matches.present
  THEN join([i \in 1..Len(Blocks(resp)) |-> BlockText(Blocks(resp)[i])], "\n---\n")
  ELSE ""

RefusalSentence == "I don't have enough information to answer that."

\* the lines of systemPrompt, the context standing on one of them
systemPrompt(ctx) ==
  << "You are an expert assistant for openwave, a platform connecting open-source projects with contributors.",
     "Your task is to answer user questions based ONLY on the context provided below.",
     "",
     "CONTEXT:",
     "---",
     ctx,
     "---",
     "",
     "IMPORTANT INSTRUCTIONS:",
     "1.  ONLY use the information from the CONTEXT section to answer the query.",
     "2.  If the context does not contain the answer, you MUST state: \""
        \o RefusalSentence \o "\"",
     "3.  Do NOT use any prior knowledge or information outside of the provided context.",
     "4.  Do NOT make up or infer details not explicitly stated.",
     "5.  When returning a project's details, format it clearly.",
     "" >>

NoReply == [kind |-> "none", status |-> 0, error |-> ""]
JsonReply(st, e) == [kind |-> "json", status |-> st, error |-> e]
StreamReply == [kind |-> "stream", status |-> 200, error |-> ""]

NoContext == [blocks |-> <<>>, text |-> ""]

\* the catch block of POST
PostCatch(e) ==
  /\ ppc' = "failed"
  /\ pResponse' = JsonReply(500, "Failed to process RAG request: " \o e)

\* a request arrives; req.json() is awaited
PostReceive(b) ==
  /\ ppc = "idle"
  /\ ppc' = "received"
  /\ body' = b
  /\ UNCHANGED <<apiKey, index, gvars, embedCalls, embedAnswer, queryEmbedding, queryCalls, genCalls,
                 queryResponse, context, pResponse>>

\* req.json() settles; the latest user message is looked up and checked, and
\* getEmbedding of its content is called
PostValidate ==
  /\ ppc = "received"
  /\ CASE body.kind = "badjson" ->
            /\ PostCatch("Unexpected token in JSON")
            /\ UNCHANGED embedCalls
       [] body.kind = "nolist" ->
            /\ PostCatch("Cannot read properties of undefined (reading 'filter')")
            /\ UNCHANGED embedCalls
       [] OTHER ->
            LET latest == latestUserMessage(body.messages)
            IN IF ~latest.present \/ ~latest.val.content.isString
               THEN /\ ppc' = "failed"
                    /\ pResponse' = JsonReply(400, "Invalid user message in request.")
                    /\ UNCHANGED embedCalls
               ELSE /\ ppc' = "embedding"
                    /\ embedCalls' = Append(embedCalls, latest.val.content.text)
                    /\ UNCHANGED pResponse
  /\ UNCHANGED <<apiKey, index, gvars, body, embedAnswer, queryEmbedding, queryCalls,
                 genCalls, queryResponse, context>>

\* the model call of the query answers resp; then getPineconeIndex() and
\* index.query are called
PostEmbedSettle(resp) ==
  /\ ppc = "embedding"
  /\ embedAnswer' = resp
  /\ LET embedding == getEmbedding(resp)
     IN IF ~embedding.ok
        THEN /\ PostCatch(embedding.err)
             /\ UNCHANGED <<queryEmbedding, queryCalls>>
        ELSE /\ queryEmbedding' = Some(embedding.val)
             /\ IF ~apiKey
                THEN /\ PostCatch("PINECONE_API_KEY environment variable is not set.")
                     /\ UNCHANGED queryCalls
                ELSE /\ ppc' = "querying"
                     /\ queryCalls' = Append(queryCalls, QueryRequest(embedding.val))
                     /\ UNCHANGED pResponse
  /\ UNCHANGED <<apiKey, index, gvars, body, embedCalls, genCalls, queryResponse,
                 context>>

\* faulty variant of PostQueryFail: the rejection is swallowed and the model is
\* called with an empty context
PostQueryFailSwallowed ==
  /\ ppc = "querying"
  /\ ppc' = "generating"
  /\ genCalls' = Append(genCalls, [system |-> systemPrompt(""),
                                   messages |-> body.messages])
  /\ UNCHANGED <<apiKey, index, gvars, body, embedCalls, embedAnswer, queryEmbedding,
                 queryCalls, queryResponse, context, pResponse>>

\* index.query rejects
PostQueryFail ==
  /\ ppc = "querying"
  /\ PostCatch("query failed")
  /\ UNCHANGED <<apiKey, index, gvars, body, embedCalls, embedAnswer, queryEmbedding, queryCalls, genCalls,
                 queryResponse, context>>

\* faulty variant of PostQueried: streamText is given the latest user message
\* alone, followed by the context as a further message
PostQueriedLastMessageOnly ==
  /\ ppc = "querying"
  /\ \E resp \in QueryAnswers(index, queryCalls[Len(queryCalls)]) :
       /\ queryResponse' = resp
       /\ IF RenderThrows(resp)
          THEN /\ PostCatch("Cannot read properties of undefined (reading 'projectName')")
               /\ UNCHANGED <<context, genCalls>>
          ELSE /\ ppc' = "generating"
               /\ context' = [blocks |-> Blocks(resp), text |-> Context(resp)]
               /\ genCalls' = Append(genCalls,
                    [system |-> systemPrompt(Context(resp)),
                     messages |-> <<latestUserMessage(body.messages).val,
                                    Message("system", TextContent(Context(resp)))>>])
               /\ UNCHANGED pResponse
  /\ UNCHANGED <<apiKey, index, gvars, body, embedCalls, embedAnswer, queryEmbedding,
                 queryCalls>>

\* index.query answers: the context and the system prompt are built and
\* streamText is called with the prompt and the request's messages
PostQueriedWith(resp) ==
  /\ ppc = "querying"
  /\ queryResponse' = resp
  /\ IF RenderThrows(resp)
     THEN /\ PostCatch("Cannot read properties of undefined (reading 'projectName')")
          /\ UNCHANGED <<context, genCalls>>
     ELSE /\ ppc' = "generating"
          /\ context' = [blocks |-> Blocks(resp), text |-> Context(resp)]
          /\ genCalls' = Append(genCalls, [system |-> systemPrompt(Context(resp)),
                                           messages |-> body.messages])
          /\ UNCHANGED pResponse
  /\ UNCHANGED <<apiKey, index, gvars, body, embedCalls, embedAnswer, queryEmbedding,
                 queryCalls>>

\* index.query answers any of the answers the index can give
PostQueried ==
  /\ ppc = "querying"
  /\ \E resp \in QueryAnswers(index, queryCalls[Len(queryCalls)]) : PostQueriedWith(resp)

\* faulty variant of PostGenFail: a failed streamText is called a second time
\* before the request is failed
PostGenFailRetried ==
  /\ ppc = "generating"
  /\ IF Len(genCalls) < 2
     THEN /\ genCalls' = Append(genCalls, genCalls[Len(genCalls)])
          /\ UNCHANGED <<ppc, pResponse>>
     ELSE /\ PostCatch("generation failed")
          /\ UNCHANGED genCalls
  /\ UNCHANGED <<apiKey, index, gvars, body, embedCalls, embedAnswer, queryEmbedding,
                 queryCalls, queryResponse, context>>

\* streamText throws
PostGenFail ==
  /\ ppc = "generating"
  /\ PostCatch("generation failed")
  /\ UNCHANGED <<apiKey, index, gvars, body, embedCalls, embedAnswer, queryEmbedding, queryCalls, genCalls,
                 queryResponse, context>>

\* streamText returns and result.toDataStreamResponse() is the response
PostStream ==
  /\ ppc = "generating"
  /\ ppc' = "streaming"
  /\ pResponse' = StreamReply
  /\ UNCHANGED <<apiKey, index, gvars, body, embedCalls, embedAnswer, queryEmbedding, queryCalls, genCalls,
                 queryResponse, context>>

\* the stream ends, with its last chunk or with an error on the stream
PostStreamEnd(ok) ==
  /\ ppc = "streaming"
  /\ ppc' = IF ok THEN "completed" ELSE "failed"
  /\ UNCHANGED <<apiKey, index, gvars, body, embedCalls, embedAnswer, queryEmbedding, queryCalls, genCalls,
                 queryResponse, context, pResponse>>

----------------------------------------------------------------------------
(* Specifications *)

StoredRecord(v, md) == [values |-> v, metadata |-> md]

\* contents of the index before the handlers run: empty, written by an
\* earlier indexing run, or holding also records written by other programs,
\* one of them without metadata
IndexedTwo ==
  ("0" :> StoredRecord(Vec("0.1"),
            Some([projectName |-> "A", description |-> "desc",
                  languages |-> "{\"js\":10}", owner |-> "bob"])))
  @@ ("1" :> StoredRecord(Vec("0.2"),
            Some([projectName |-> "Unnamed Project", description |-> " hi\n",
                  languages |-> "null", owner |-> "Unknown Owner"])))

InitialIndexes ==
  { <<>>,
    IndexedTwo,
    IndexedTwo
      @@ ("7" :> StoredRecord(Vec("0.1"), None))
      @@ ("8" :> StoredRecord(Vec("0.2"),
                   Some([projectName |-> "Z", description |-> "zeta",
                         languages |-> "{}", owner |-> "zed"])))
      @@ ("9" :> StoredRecord(Vec("0.1"),
                   Some([projectName |-> "Y", description |-> "ypsilon",
                         languages |-> "{\"go\":3}", owner |-> "yan"]))) }

\* no indexing run has ended yet
NoRun == [success |-> FALSE, rows |-> <<>>, answers |-> <<>>]

Init ==
  /\ apiKey \in BOOLEAN
  /\ index \in InitialIndexes
  /\ index0 = index
  /\ gpc = "idle"
  /\ allProjects = <<>>
  /\ tasks = <<>>
  /\ upserts = <<>>
  /\ gResponse = NoResponse
  /\ hfLog = <<>>
  /\ lastRun = NoRun
  /\ ppc = "idle"
  /\ body = BadJson
  /\ embedCalls = <<>>
  /\ embedAnswer = HfReject
  /\ queryEmbedding = None
  /\ queryCalls = <<>>
  /\ genCalls = <<>>
  /\ queryResponse = NoAnswer
  /\ context = NoContext
  /\ pResponse = NoReply

\* one indexing run
NextIndexing ==
  \/ GetStart
  \/ GetFetchFail
  \/ \E rows \in ProjectLists : GetFetched(rows)
  \/ \E i \in 1..MaxProjects, resp \in HfResponses : GetEmbedSettle(i, resp)
  \/ GetUpsertDone
  \/ GetUpsertFail

SpecIndexing == Init /\ [][NextIndexing]_vars

\* one retrieval request
NextRetrieval ==
  \/ \E b \in Bodies : PostReceive(b)
  \/ PostValidate
  \/ \E resp \in HfResponses : PostEmbedSettle(resp)
  \/ PostQueryFail
  \/ PostQueried
  \/ PostGenFail
  \/ PostStream
  \/ \E ok \in BOOLEAN : PostStreamEnd(ok)

SpecRetrieval == Init /\ [][NextRetrieval]_vars

----------------------------------------------------------------------------
(* Indexing runs and retrieval requests, one after the other and interleaved *)

\* the handler has answered and GET is requested again: a new invocation
\* starts from fresh locals; the rows and answers of a successful run are
\* remembered for comparison with the next
GetAgain ==
  /\ gpc = "done"
  /\ gpc' = "idle"
  /\ lastRun' = IF gResponse.success
                THEN [success |-> TRUE, rows |-> allProjects,
                      answers |-> [i \in 1..Len(tasks) |->
                         hfLog[CHOOSE k \in 1..Len(hfLog) : hfLog[k].task = i].answer]]
                ELSE NoRun
  /\ allProjects' = <<>>
  /\ tasks' = <<>>
  /\ upserts' = <<>>
  /\ hfLog' = <<>>
  /\ gResponse' = NoResponse
  /\ UNCHANGED <<apiKey, index, index0, pvars>>

\* the request is over and POST is requested again
PostAgain ==
  /\ ppc \in {"completed", "failed"}
  /\ ppc' = "idle"
  /\ body' = BadJson
  /\ embedCalls' = <<>>
  /\ embedAnswer' = HfReject
  /\ queryEmbedding' = None
  /\ queryCalls' = <<>>
  /\ genCalls' = <<>>
  /\ queryResponse' = NoAnswer
  /\ context' = NoContext
  /\ pResponse' = NoReply
  /\ UNCHANGED <<apiKey, index, gvars>>

\* the inputs of the repeated handlers: lists of rows with a description (a
\* source of two rows, named before unnamed, of which any may be missing at
\* the time of a run), answers of the model, request bodies and answers of
\* the index (no match list, or one stored record)
RunRows == {p \in ProjectPool : HasDescription(p)}
RunLists ==
  {rows \in ProjectLists :
     /\ Len(rows) <= 2
     /\ \A i \in 1..Len(rows) : rows[i] \in RunRows
     /\ \A i, j \in 1..Len(rows) :
          i < j => rows[i].projectName.present /\ ~rows[j].projectName.present}
RunAnswers == {HfReject, HfFlat(Vec("0.1")), HfFlat(Vec("0.2"))}
RunBodies == {NoList, ListBody(<<Message("user", TextContent("hi"))>>)}
RunQueryAnswers ==
  {Answer(None)} \cup
  {Answer(Some(<<[id |-> id, score |-> Score("spread", 1), metadata |-> index[id].metadata]>>)) :
     id \in DOMAIN index}

Next ==
  \/ GetStart
  \/ GetFetchFail
  \/ \E rows \in RunLists : GetFetched(rows)
  \/ \E i \in 1..MaxProjects, resp \in RunAnswers : GetEmbedSettle(i, resp)
  \/ GetUpsertDone
  \/ GetUpsertFail
  \/ GetAgain
  \/ \E b \in RunBodies : PostReceive(b)
  \/ PostValidate
  \/ PostEmbedSettle(HfReject)
  \/ PostEmbedSettle(HfFlat(Vec("0.1")))
  \/ PostQueryFail
  \/ \E resp \in RunQueryAnswers : PostQueriedWith(resp)
  \/ PostGenFail
  \/ PostStream
  \/ \E ok \in BOOLEAN : PostStreamEnd(ok)
  \/ PostAgain

Spec == Init /\ [][Next]_vars

----------------------------------------------------------------------------
(* Properties of the indexing run *)

\* a description that is absent, empty or made of white space only
Blank(p) ==
  \/ ~p.aiDescription.present
  \/ \A c \in 1..Len(p.aiDescription.val) : p.aiDescription.val[c] \in {" ", "\t", "\n"}

\* positions of the fetched rows that are not blank, and the k-th of them
EligiblePositions == {i \in 1..Len(allProjects) : ~Blank(allProjects[i])}
KthEligible(k) ==
  CHOOSE i \in EligiblePositions : Cardinality({j \in EligiblePositions : j < i}) = k - 1

\* the batch of the run: the argument of its upsert call, empty without one
Batch == IF upserts = <<>> THEN <<>> ELSE upserts[Len(upserts)]

\* batch b carries the k-th eligible row at position k
CarriesKthEligible(b, k) ==
  LET p == allProjects[KthEligible(k)]
  IN /\ b[k].metadata.present
     /\ b[k].metadata.val.description = Text(p.aiDescription.val)
     /\ b[k].metadata.val.languages = JSONStringify(p.languages)
     /\ TruthyStr(p.projectName) => b[k].metadata.val.projectName = p.projectName.val
     /\ TruthyStr(p.projectOwner) => b[k].metadata.val.owner = p.projectOwner.val

SomeTaskRejected == \E i \in DOMAIN tasks : tasks[i].status = "rejected"

\* C1: once the embedding of an eligible record has failed (the call rejected
\* or the vector was rejected as invalid), the run has made no upsert call,
\* the index is as it was when the run started and the run has ended with a
\* 500 error response, whatever the other tasks have done or do later.
C1_AllOrNothing ==
  SomeTaskRejected =>
    /\ upserts = <<>>
    /\ index = index0
    /\ gpc = "done"
    /\ gResponse.status = 500 /\ ~gResponse.success

\* C1 witness: the first task fulfilled and the second was rejected
C1_Witness ==
  /\ Len(tasks) = 2
  /\ tasks[1].status = "fulfilled"
  /\ tasks[2].status = "rejected"
  /\ gpc = "done"

\* C2: the batch of a run that reached its upsert or ended in success holds
\* one record per non-blank fetched row, in fetch order, and nothing else.
C2_BatchIsEligibleRows ==
  (upserts # <<>> \/ (gpc = "done" /\ gResponse.success)) =>
    /\ Len(upserts) <= 1
    /\ Len(Batch) = Cardinality(EligiblePositions)
    /\ \A k \in 1..Len(Batch) : CarriesKthEligible(Batch, k)

\* C2 witness: a successful run over a white-space-only row followed by an
\* eligible one
C2_Witness ==
  /\ gpc = "done" /\ gResponse.success
  /\ Len(allProjects) = 2
  /\ allProjects[1].aiDescription.present
  /\ allProjects[1].aiDescription.val # <<>>
  /\ Blank(allProjects[1])
  /\ Len(Batch) = 1

\* C6 (as claimed): every component of every vector handed to index.upsert is
\* a finite number.
C6_UpsertedVectorsFinite ==
  \A b \in 1..Len(upserts) : \A k \in 1..Len(upserts[b]) :
    \A c \in 1..Len(upserts[b][k].values) :
      upserts[b][k].values[c] \in {"0.1", "0.2"}

DecimalIds == <<"0", "1", "2", "3", "4", "5", "6", "7", "8", "9">>

\* C9: in every upserted batch the record at (zero-based) position k has the
\* id "k" and is the k-th eligible row of the fetch, so the ids are pairwise
\* distinct and the first eligible row has id "0" wherever blank rows stand.
C9_PositionalIds ==
  \A b \in 1..Len(upserts) :
    /\ \A k \in 1..Len(upserts[b]) :
         /\ upserts[b][k].id = DecimalIds[k]
         /\ CarriesKthEligible(upserts[b], k)
    /\ \A j, k \in 1..Len(upserts[b]) : j # k => upserts[b][j].id # upserts[b][k].id

\* C9 witness: a blank row was fetched first and the eligible row after it
\* was upserted with id "0"
C9_Witness ==
  /\ upserts # <<>>
  /\ Len(allProjects) = 2
  /\ Blank(allProjects[1])
  /\ Len(upserts[1]) = 1
  /\ upserts[1][1].id = "0"

----------------------------------------------------------------------------
(* Properties of the retrieval request *)

\* the body is a message list without any message of role user
NoUserRole ==
  /\ body.kind = "list"
  /\ \A i \in 1..Len(body.messages) : body.messages[i].role # "user"

\* the body is a message list whose last message of role user has text content
ValidRequest ==
  /\ body.kind = "list"
  /\ \E i \in 1..Len(body.messages) :
       /\ body.messages[i].role = "user"
       /\ body.messages[i].content.isString
       /\ \A j \in (i + 1)..Len(body.messages) : body.messages[j].role # "user"

Matches == IF queryResponse.matches.present THEN queryResponse.matches.val ELSE <<>>

MatchWithoutMetadata == \E i \in 1..Len(Matches) : ~Matches[i].metadata.present

RepliedJson(st) == pResponse.kind = "json" /\ pResponse.status = st

\* C3: a request whose message list has no user message is answered 400 and
\* calls neither the embedder, nor the index, nor the generation model.
C3_NoUserMessageIsInvalid ==
  (NoUserRole /\ ppc # "idle") =>
    /\ embedCalls = <<>> /\ queryCalls = <<>> /\ genCalls = <<>>
    /\ \/ ppc = "received" /\ pResponse.kind = "none"
       \/ ppc = "failed" /\ RepliedJson(400)

\* C3 witness: a list of two messages, none of a user, was answered
C3_Witness ==
  /\ NoUserRole
  /\ Len(body.messages) = 2
  /\ ppc = "failed"

\* C4: the generation model has been called only if the request was valid,
\* the query was embedded, the index answered and every match could be
\* rendered; a request that failed one of these steps has ended with a JSON
\* error and without a generation call.
C4_GenerationAfterAllSteps ==
  /\ genCalls # <<>> =>
       /\ Len(genCalls) = 1
       /\ ValidRequest
       /\ queryEmbedding.present
       /\ queryResponse.answered
       /\ ~MatchWithoutMetadata
  /\ ( \/ ppc \notin {"idle", "received"} /\ ~ValidRequest
       \/ embedCalls # <<>> /\ ppc # "embedding" /\ ~queryEmbedding.present
       \/ queryCalls # <<>> /\ ppc # "querying" /\ ~queryResponse.answered
       \/ queryResponse.answered /\ MatchWithoutMetadata )
     => /\ ppc = "failed"
        /\ genCalls = <<>>
        /\ pResponse.kind = "json" /\ pResponse.status \in {400, 500}

\* C4 witness: the index answered a match without metadata and the request
\* failed at rendering
C4_Witness ==
  /\ queryResponse.answered
  /\ MatchWithoutMetadata
  /\ ppc = "failed"

RECURSIVE SumLen(_, _)
SumLen(rows, n) == IF n = 0 THEN 0 ELSE SumLen(rows, n - 1) + Len(rows[n])

\* C5 (as claimed): a vector returned by getEmbedding has the configured
\* dimension.
C5_FixedDimension == queryEmbedding.present => Len(queryEmbedding.val) = Dim

\* C5 (amended): getEmbedding fails when the call rejects or the answer is no
\* array, and otherwise returns the components of the answer in order, the
\* rows of a nested answer one after the other: as many components as the
\* answer carries, whatever the configured dimension.
C5_ReturnsAllComponents ==
  /\ queryEmbedding.present =>
       /\ embedAnswer.kind \in {"flat", "nested"}
       /\ Len(queryEmbedding.val) = SumLen(embedAnswer.rows, Len(embedAnswer.rows))
       /\ \A r \in 1..Len(embedAnswer.rows) : \A k \in 1..Len(embedAnswer.rows[r]) :
            queryEmbedding.val[SumLen(embedAnswer.rows, r - 1) + k] = embedAnswer.rows[r][k]
  /\ (embedCalls # <<>> /\ ppc # "embedding" /\ embedAnswer.kind \in {"reject", "scalar"})
       => ~queryEmbedding.present /\ ppc = "failed" /\ RepliedJson(500)

\* C5 witness: a nested answer of two rows was returned as one vector of
\* twice the dimension
C5_Witness ==
  /\ queryEmbedding.present
  /\ embedAnswer.kind = "nested"
  /\ Len(embedAnswer.rows) = 2
  /\ Len(queryEmbedding.val) = 2 * Dim

\* C7 (as claimed): a request is answered with a stream, a JSON 400 or a JSON
\* 500; every request without a usable user message is answered 400, and 500
\* is answered only to requests that had one.
C7_StatusByFailureKind ==
  pResponse.kind # "none" =>
    /\ pResponse.kind = "stream" \/ RepliedJson(400) \/ RepliedJson(500)
    /\ ~ValidRequest => RepliedJson(400)
    /\ RepliedJson(500) => ValidRequest

ZeroMatches == queryResponse.answered /\ Matches = <<>>

\* C8: when the index answers no match (an empty or an absent list) the
\* request goes on: the context is empty, and the generation model is called
\* once with the request's messages and the system prompt in its full
\* structure, the refusal sentence included.
C8_ZeroMatchesStillGenerate ==
  ZeroMatches =>
    /\ ppc \in {"generating", "streaming", "completed", "failed"}
    /\ ppc = "failed" => pResponse.kind = "stream" \/ RepliedJson(500)
    /\ context.blocks = <<>> /\ context.text = ""
    /\ Len(genCalls) = 1
    /\ genCalls[1].messages = body.messages
    /\ Len(genCalls[1].system) = 15
    /\ SubSeq(genCalls[1].system, 4, 9) =
         <<"CONTEXT:", "---", "", "---", "", "IMPORTANT INSTRUCTIONS:">>
    /\ genCalls[1].system[11] =
         "2.  If the context does not contain the answer, you MUST state: \"I don't have enough information to answer that.\""

\* C8 witness: the answer had no match list and the response is streaming
C8_Witness ==
  /\ queryResponse.answered
  /\ ~queryResponse.matches.present
  /\ ppc = "streaming"

\* C10: the index is queried for 3 matches with their metadata, and the
\* context has one block per match of the answer, in the order of the answer
\* and never more than 3; the context reaches the prompt as rendered.
C10_ContextListsMatches ==
  /\ \A q \in 1..Len(queryCalls) :
       queryCalls[q].topK = 3 /\ queryCalls[q].includeMetadata
  /\ genCalls # <<>> =>
       /\ Len(context.blocks) = Len(Matches)
       /\ Len(context.blocks) <= 3
       /\ \A i \in 1..Len(Matches) :
            /\ context.blocks[i].project = Matches[i].metadata.val.projectName
            /\ context.blocks[i].owner = Matches[i].metadata.val.owner
            /\ context.blocks[i].description = Matches[i].metadata.val.description
       /\ genCalls[1].system[6] = context.text

\* C10 witness: three matches were answered and rendered
C10_Witness ==
  /\ genCalls # <<>>
  /\ Len(Matches) = 3
  /\ Len(context.blocks) = 3

\* positions of the user messages of the body, and of those with text content
UserPositions == {i \in 1..Len(body.messages) : body.messages[i].role = "user"}
TextUserPositions == {i \in UserPositions : body.messages[i].content.isString}
Last(S) == CHOOSE i \in S : \A j \in S : j <= i

Validated == ppc \notin {"idle", "received"}

\* C11 (as claimed): a list with a user message of text content passes
\* validation and the content of the last such message is embedded; 400 is
\* answered only to lists without any.
C11_LastTextUserMessage ==
  (Validated /\ body.kind = "list") =>
    /\ TextUserPositions # {} =>
         embedCalls = <<body.messages[Last(TextUserPositions)].content.text>>
    /\ RepliedJson(400) => TextUserPositions = {}

\* C11 (amended): the handler looks at the last message of role user only:
\* when its content is text that text is embedded, and when there is no user
\* message or the content of the last one is not text the request is answered
\* 400 and nothing is embedded, also when an earlier user message has text.
C11_LastUserMessage ==
  (Validated /\ body.kind = "list") =>
    IF UserPositions # {} /\ body.messages[Last(UserPositions)].content.isString
    THEN /\ embedCalls = <<body.messages[Last(UserPositions)].content.text>>
         /\ ~RepliedJson(400)
    ELSE /\ embedCalls = <<>>
         /\ ppc = "failed" /\ RepliedJson(400)

\* C11 witness: a text user message followed by a user message of parts was
\* answered 400
C11_Witness ==
  /\ body.kind = "list"
  /\ TextUserPositions # {}
  /\ ~body.messages[Last(UserPositions)].content.isString
  /\ ppc = "failed" /\ RepliedJson(400)

\* the moves of a request between the positions of the handler: Received
\* (req.json awaited), Validated (embedding awaited), Embedded (index query
\* awaited), Retrieved and Grounded (context and prompt built, streamText
\* awaited), Streaming, and the two ends
StageMoves ==
  { <<"idle", "received">>,
    <<"received", "embedding">>, <<"received", "failed">>,
    <<"embedding", "querying">>, <<"embedding", "failed">>,
    <<"querying", "generating">>, <<"querying", "failed">>,
    <<"generating", "streaming">>, <<"generating", "failed">>,
    <<"streaming", "completed">>, <<"streaming", "failed">> }

\* C12: every step of a request moves it one stage forward or fails it, the
\* ends Completed and Failed are never left, the embedder is called only on
\* entering Validated, the index only on entering Embedded and the model only
\* on entering Grounded, each at most once, so in that order and without retry.
C12_StagesInOrder ==
  [][ pvars' # pvars =>
        /\ <<ppc, ppc'>> \in StageMoves
        /\ embedCalls' # embedCalls =>
             /\ <<ppc, ppc'>> = <<"received", "embedding">>
             /\ Len(embedCalls') = 1 /\ queryCalls' = <<>> /\ genCalls' = <<>>
        /\ queryCalls' # queryCalls =>
             /\ <<ppc, ppc'>> = <<"embedding", "querying">>
             /\ Len(embedCalls') = 1 /\ Len(queryCalls') = 1 /\ genCalls' = <<>>
        /\ genCalls' # genCalls =>
             /\ <<ppc, ppc'>> = <<"querying", "generating">>
             /\ Len(embedCalls') = 1 /\ Len(queryCalls') = 1 /\ Len(genCalls') = 1
        /\ ppc' = "embedding" => embedCalls' # embedCalls
        /\ ppc' = "querying" => queryCalls' # queryCalls
        /\ ppc' = "generating" => genCalls' # genCalls ]_vars

\* C12 witness: a request went through every stage and completed
C12_Witness ==
  /\ ppc = "completed"
  /\ Len(embedCalls) = 1 /\ Len(queryCalls) = 1 /\ Len(genCalls) = 1
  /\ pResponse.kind = "stream"

AllTasksFulfilled == \A i \in DOMAIN tasks : tasks[i].status = "fulfilled"

\* C13: a run calls index.upsert at most once; when the embeddings of its
\* n >= 1 eligible rows have all succeeded it has called it once with n
\* records; a run without eligible row calls it never and reports success; a
\* successful run reports n as the number of projects processed.
C13_SingleUpsert ==
  LET n == Cardinality(EligiblePositions)
  IN /\ Len(upserts) <= 1
     /\ upserts # <<>> => n >= 1 /\ Len(upserts[1]) = n /\ AllTasksFulfilled
     /\ (n >= 1 /\ Len(tasks) = n /\ AllTasksFulfilled) => Len(upserts) = 1
     /\ (allProjects # <<>> /\ n = 0) =>
          upserts = <<>> /\ gpc = "done" /\ gResponse.success
     /\ (gpc = "done" /\ gResponse.success) =>
          /\ gResponse.projectsProcessed = n
          /\ gResponse.status = 200
          /\ n = 0 <=> upserts = <<>>

\* C13 witness: a run over two eligible rows ended in success
C13_Witness ==
  /\ gpc = "done" /\ gResponse.success
  /\ Cardinality(EligiblePositions) = 2
  /\ Len(upserts) = 1 /\ Len(upserts[1]) = 2
  /\ gResponse.projectsProcessed = 2

----------------------------------------------------------------------------
(* C14 *)

\* the order in which the model calls of the run answered
ArrivalOrder == [k \in 1..Len(hfLog) |-> hfLog[k].task]
\* the model call of the i-th task, and the answer it got
CallOf(i) == hfLog[CHOOSE k \in 1..Len(hfLog) : hfLog[k].task = i]
AnswerOf(i) == CallOf(i).answer
\* the numbers of an answer, row after row
Numbers(resp) == IF resp.kind = "flat" THEN resp.rows[1] ELSE flat(resp.rows)

\* C14: whatever the order in which the concurrent model calls answer, the
\* upserted batch is in input order: position i (zero-based) holds the id "i",
\* the numbers the model answered for the description of the i-th eligible
\* row, and the metadata of that row.
C14_BatchInInputOrder ==
  \A b \in 1..Len(upserts) : \A k \in 1..Len(upserts[b]) :
    /\ Len(upserts[b]) = Len(hfLog)
    /\ upserts[b][k].id = DecimalIds[k]
    /\ CallOf(k).text = Text(allProjects[KthEligible(k)].aiDescription.val)
    /\ upserts[b][k].values = Numbers(AnswerOf(k))
    /\ CarriesKthEligible(upserts[b], k)

\* the second call answered first, with other numbers than the first call
C14_Witness ==
  /\ ArrivalOrder = <<2, 1>>
  /\ hfLog[1].answer # hfLog[2].answer
  /\ gpc = "done" /\ gResponse.success
  /\ Len(Batch) = 2
  /\ Batch[1].values = Numbers(hfLog[2].answer)
  /\ Batch[2].values = Numbers(hfLog[1].answer)
  /\ Batch[1].values # Batch[2].values
  /\ index["0"].values = Batch[1].values

----------------------------------------------------------------------------
(* C15 *)

\* the positions of the log whose call made its task reject, and the earliest
RejectedArrivals == {k \in 1..Len(hfLog) : tasks[hfLog[k].task].status = "rejected"}
FirstRejected == hfLog[CHOOSE k \in RejectedArrivals : \A m \in RejectedArrivals : k <= m].task

\* C15: as soon as one embedding task of a run is rejected the run has ended:
\* the 500 response carries the error of the task that was rejected first in
\* time, whatever its index and whether or not other tasks are still pending,
\* and no upsert is made then or later, whatever the other tasks do.
C15_FailFast ==
  SomeTaskRejected =>
    /\ gpc = "done"
    /\ gResponse = [status |-> 500, success |-> FALSE, projectsProcessed |-> 0,
                    error |-> "Failed to process data: " \o tasks[FirstRejected].err]
    /\ upserts = <<>>
    /\ index = index0

\* the second task was rejected first, the first later and with another error
C15_Witness ==
  /\ ArrivalOrder = <<2, 1>>
  /\ tasks[1].status = "rejected" /\ tasks[2].status = "rejected"
  /\ tasks[1].err # tasks[2].err
  /\ gResponse.error = "Failed to process data: " \o tasks[2].err
  /\ gResponse.status = 500 /\ upserts = <<>>

----------------------------------------------------------------------------
(* C17 *)

\* C17: every call of the generation model is given the message list of the
\* request as it came, message by message in the same order, and a system
\* instruction that is the fixed template around the rendered context; the
\* call has no other argument that depends on the request.
C17_MessagesPassedThrough ==
  \A g \in 1..Len(genCalls) :
    /\ DOMAIN genCalls[g] = {"system", "messages"}
    /\ Len(genCalls[g].messages) = Len(body.messages)
    /\ \A i \in 1..Len(body.messages) :
         /\ genCalls[g].messages[i].role = body.messages[i].role
         /\ genCalls[g].messages[i].content = body.messages[i].content
    /\ Len(genCalls[g].system) = 15
    /\ genCalls[g].system[6] = context.text
    /\ \A l \in (1..15) \ {6} : genCalls[g].system[l] = systemPrompt("")[l]

\* C17 witness: a list of two messages whose last is not the user's, and a
\* context that is not empty
C17_Witness ==
  /\ genCalls # <<>>
  /\ Len(body.messages) = 2
  /\ body.messages[1].role = "user"
  /\ body.messages[2].role # "user"
  /\ genCalls[1].messages = body.messages
  /\ context.text # ""

----------------------------------------------------------------------------
(* C16 *)

\* the ids of the batch being upserted
BatchIds == {Batch[k].id : k \in 1..Len(Batch)}
\* the ids a run with n eligible rows writes: "0" .. "n-1"
RunIds == {DecimalIds[k] : k \in 1..Cardinality(EligiblePositions)}

\* C16: in every step of any interleaving of indexing runs and retrieval
\* requests, every id of the index stays in the index; the index changes only
\* in the step in which the upsert of an indexing run completes, which is no
\* step of a retrieval request; and in that step only the records under the
\* ids of the batch, which are the ids below the number of eligible rows, are
\* written: every other record stays exactly as it was.
C16_RecordsOnlyOverwritten ==
  [][ /\ DOMAIN index \subseteq DOMAIN index'
      /\ index' # index =>
           /\ gpc = "upserting" /\ gpc' = "done" /\ gResponse'.success
           /\ pvars' = pvars
           /\ BatchIds = RunIds
      /\ \A id \in DOMAIN index' :
           (id \notin DOMAIN index \/ index'[id] # index[id]) => id \in BatchIds /\ id \in RunIds
      /\ \A id \in DOMAIN index \ RunIds : index'[id] = index[id]
    ]_vars

\* C16 witness: on an empty index a run of two eligible rows, a retrieval
\* request and then a run of one eligible row with other numbers have
\* completed: the record "1" is still as the first run wrote it
C16_Witness ==
  /\ gpc = "done" /\ gResponse.success
  /\ Len(Batch) = 1
  /\ lastRun.success /\ Len(lastRun.answers) = 2
  /\ ppc = "completed"
  /\ DOMAIN index = {"0", "1"}
  /\ index["0"].values = Batch[1].values
  /\ index["0"].values # Numbers(lastRun.answers[1])
  /\ index["1"].values = Numbers(lastRun.answers[2])
  /\ index["1"].metadata.val.description = Text(lastRun.rows[2].aiDescription.val)

----------------------------------------------------------------------------
(* C18 *)

KeyMissing == "PINECONE_API_KEY environment variable is not set."

\* C18: without the key of the vector index, an indexing run never reads the
\* store, calls the model or upserts, and its only answer is a 500 with the
\* error of the missing key; a retrieval request never queries the index or
\* calls the generation model, never streams, and its only answer is a JSON
\* error, which is the 500 of the missing key once the query was embedded.
C18_NoKeyNoWork ==
  ~apiKey =>
    /\ gpc \in {"idle", "done"}
    /\ allProjects = <<>> /\ tasks = <<>> /\ hfLog = <<>> /\ upserts = <<>>
    /\ index = index0
    /\ gpc = "done" =>
         gResponse = [status |-> 500, success |-> FALSE, projectsProcessed |-> 0,
                      error |-> "Failed to process data: " \o KeyMissing]
    /\ queryCalls = <<>> /\ genCalls = <<>> /\ ~queryResponse.answered
    /\ ppc \in {"idle", "received", "embedding", "failed"}
    /\ ppc = "failed" => RepliedJson(400) \/ RepliedJson(500)
    /\ ppc # "failed" => pResponse = NoReply
    /\ queryEmbedding.present =>
         /\ ppc = "failed"
         /\ pResponse.error = "Failed to process RAG request: " \o KeyMissing

\* C18 witness: without the key an indexing run has answered and a retrieval
\* request whose query was embedded has answered
C18_Witness ==
  /\ ~apiKey
  /\ gpc = "done" /\ gResponse.status = 500
  /\ ppc = "failed" /\ queryEmbedding.present
  /\ Len(embedCalls) = 1
  /\ RepliedJson(500)

----------------------------------------------------------------------------
(* C19 *)

\* the run in progress fetched the rows of the successful run before it, in
\* the same order, and the model has answered each call as it did then
SameRunAgain ==
  /\ lastRun.success
  /\ lastRun.rows = allProjects
  /\ Len(lastRun.answers) = Len(tasks)
  /\ \A k \in 1..Len(hfLog) : hfLog[k].answer = lastRun.answers[hfLog[k].task]

\* C19: no step of an indexing run that repeats the successful run before it
\* (same rows in the same order, same answers of the model) changes the
\* index: after the second run the index is as the first run left it,
\* whatever it held before the first.
C19_ReindexIdempotent ==
  [][ (SameRunAgain /\ gpc # "idle") => index' = index ]_vars

\* C19 witness: the second of two equal runs of two eligible rows has upserted
\* its batch and answered
C19_Witness ==
  /\ SameRunAgain
  /\ gpc = "done" /\ gResponse.success
  /\ Len(upserts) = 1 /\ Len(Batch) = 2
  /\ \A k \in 1..2 : index[DecimalIds[k]].values = Numbers(lastRun.answers[k])
  /\ index = index0

====
